---- MODULE Spec2Model ----
(***************************************************************************)
(* Httpfs.RemoveAll (src/httpfs.go) over a backing absfs.Filer.            *)
(*                                                                         *)
(* The backing filesystem is the environment: every call the adapter makes *)
(* on it (Stat, OpenFile, Readdir, Close, Remove, and the optional native  *)
(* RemoveAll) is one step whose result is either the truthful one for the  *)
(* current tree or an injected error, as the wrappers of httpfs_test.go    *)
(* (errorFS, readdirErrorFS, conditionalErrorFS) produce.                  *)
(***************************************************************************)
EXTENDS Naturals, Sequences, FiniteSets, TLC

\* ---------------------------------------------------------------- bounds
MaxDepth == 2
MaxFaults == 2
MaxCalls == 2

\* the nesting of TestRemoveAllDeeplyNested (httpfs_test.go:625)
ChainDepth == 10

\* invocations of RemoveAll on one path that may be on the stack at once: a
\* walk that descends has one; a walk that calls itself on its own path is
\* followed this far
MaxRevisits == 2

\* ----------------------------------------------------------------- paths
Names == {"a", "b"}

\* A path is the sequence of its components; <<>> is the root "/".
\* Only the "a" branch nests, so that the number of trees stays small.
Paths ==
  UNION { { s \in [1..n -> Names] : \A i \in 1..(n-1) : s[i] = "a" } : n \in 1..MaxDepth }

Parent(p) == IF p = <<>> THEN <<>> ELSE SubSeq(p, 1, Len(p) - 1)

IsPrefix(p, q) == Len(p) <= Len(q) /\ SubSeq(q, 1, Len(p)) = p

\* path.Join(pathname, name): the result is cleaned, so "." and ".." resolve.
PathJoin(p, name) ==
  IF name = "." THEN p
  ELSE IF name = ".." THEN Parent(p)
  ELSE Append(p, name)

\* ---------------------------------------------------------------- errors
\* An error value carries its kind and the number of the backing call that
\* produced it, so that "the same error" can be told from "an equal kind".
Nil == [kind |-> "nil", id |-> 0]
Pending == [kind |-> "pending", id |-> 0]
Err(k, n) == [kind |-> k, id |-> n]

\* os.IsNotExist
IsNotExist(err) == err.kind = "NotExist"

\* -------------------------------------------------------- the filesystem
Kinds == {"absent", "file", "dir"}

WellFormed(t) ==
  \A p \in Paths : t[p] # "absent" /\ Len(p) > 1 => t[Parent(p)] = "dir"

Trees == { t \in [Paths -> Kinds] : WellFormed(t) }

KindOf(t, p) ==
  IF p \in DOMAIN t THEN t[p]
  ELSE IF p = <<>> THEN "dir" ELSE "absent"

Children(t, p) == { n \in Names : KindOf(t, Append(p, n)) # "absent" }

Removable(t, p) ==
  \/ KindOf(t, p) = "file"
  \/ KindOf(t, p) = "dir" /\ Children(t, p) = {} /\ p # <<>>

Without(t, p) == [q \in DOMAIN t |-> IF q = p THEN "absent" ELSE t[q]]

WithoutSubtree(t, p) ==
  [q \in DOMAIN t |-> IF IsPrefix(p, q) THEN "absent" ELSE t[q]]

Orderings(S) ==
  { s \in [1..Cardinality(S) -> S] : \A i, j \in 1..Cardinality(S) : i # j => s[i] # s[j] }

VARIABLES
  fs,        \* the backing tree: path -> kind
  native,    \* the backing filesystem implements RemoveAller
  dots,      \* its listings contain "." and ".."
  phase,     \* "idle" | "running" | "returned" | "checked"
  target,    \* the argument of the running top-level RemoveAll
  stack,     \* the frames of the recursion, innermost last
  ret,       \* what the top-level RemoveAll returned
  fs0,       \* the tree when the top-level call was made
  log,       \* the backing calls made by the running top-level call
  handles,   \* directory handles open
  faults,    \* injected results so far
  spurious,  \* some backing call reported NotExist for an entry that exists
  postStat,  \* result of the Stat issued after the call returned
  ncalls,    \* top-level calls made
  rets,      \* the frames of the running call that returned: path, value, calls made
  prev,      \* the previous top-level call: its target, and whether it
             \* returned success with no spurious NotExist
  legacy,    \* the RemoveAll that runs is the file's second one (lines 238-275)
  mkName,    \* MkdirAll: its argument, split at "/"
  mkLeft,    \* MkdirAll: the components the loop has not taken yet
  mkP        \* MkdirAll: the local p

vars == <<fs, native, dots, phase, target, stack, ret, fs0, log, handles,
          faults, spurious, postStat, ncalls, rets, prev, legacy,
          mkName, mkLeft, mkP>>

mkvars == <<mkName, mkLeft, mkP>>

Frame(p, pc) == [path |-> p, pc |-> pc, infos |-> <<>>, err |-> Nil]

Top == stack[Len(stack)]

SetTop(stk, f) == [stk EXCEPT ![Len(stk)] = f]

Entry(op, p, err, infos) == [op |-> op, path |-> p, err |-> err, infos |-> infos]

Init ==
  /\ fs \in Trees
  /\ native \in BOOLEAN
  /\ dots \in BOOLEAN
  /\ (native => ~dots)
  /\ phase = "idle"
  /\ target = <<>>
  /\ stack = <<>>
  /\ ret = Pending
  /\ fs0 = fs
  /\ log = <<>>
  /\ handles = 0
  /\ faults = 0
  /\ spurious = FALSE
  /\ postStat = Pending
  /\ ncalls = 0
  /\ rets = <<>>
  /\ prev = [target |-> <<>>, ok |-> FALSE]
  /\ legacy = FALSE
  /\ mkName = <<>> /\ mkLeft = <<>> /\ mkP = <<>>

\* ------------------------------------------- what the backing calls answer
\* Each operator gives the set of results the backing call may produce in
\* tree t: the truthful one and, while injection is allowed, injected errors.
\* n is the number of the call; lie marks a NotExist for an existing entry.
Outcome(err, t, isDir, infos, fault, lie) ==
  [err |-> err, fs |-> t, isDir |-> isDir, infos |-> infos, fault |-> fault, lie |-> lie]

Injected(t, p, n, inject) ==
  IF ~inject THEN {}
  ELSE {Outcome(Err("Other", n), t, FALSE, <<>>, TRUE, FALSE)}
       \cup (IF KindOf(t, p) # "absent"
             THEN {Outcome(Err("NotExist", n), t, FALSE, <<>>, TRUE, TRUE)}
             ELSE {})

StatOutcomes(t, p, n, inject) ==
  (IF KindOf(t, p) = "absent"
   THEN {Outcome(Err("NotExist", n), t, FALSE, <<>>, FALSE, FALSE)}
   ELSE {Outcome(Nil, t, KindOf(t, p) = "dir", <<>>, FALSE, FALSE)})
  \cup Injected(t, p, n, inject)

OpenOutcomes(t, p, n, inject) ==
  (IF KindOf(t, p) = "absent"
   THEN {Outcome(Err("NotExist", n), t, FALSE, <<>>, FALSE, FALSE)}
   ELSE {Outcome(Nil, t, KindOf(t, p) = "dir", <<>>, FALSE, FALSE)})
  \cup Injected(t, p, n, inject)

Listings(t, p, withDots) ==
  { (IF withDots THEN <<".", "..">> ELSE <<>>) \o o : o \in Orderings(Children(t, p)) }

ReaddirOutcomes(t, p, n, withDots, inject) ==
  { Outcome(Nil, t, TRUE, l, FALSE, FALSE) : l \in Listings(t, p, withDots) }
  \cup Injected(t, p, n, inject)

\* Remove: a file or an empty directory goes; a directory with children is
\* refused. Injected: an error without effect, and the error of a filesystem
\* that removed the entry all the same (src/httpfs.go:126-127).
RemoveOutcomes(t, p, n, inject) ==
  (IF KindOf(t, p) = "absent"
   THEN {Outcome(Err("NotExist", n), t, FALSE, <<>>, FALSE, FALSE)}
   ELSE IF Removable(t, p)
   THEN {Outcome(Nil, Without(t, p), FALSE, <<>>, FALSE, FALSE)}
   ELSE {Outcome(Err("NotEmpty", n), t, FALSE, <<>>, FALSE, FALSE)})
  \cup Injected(t, p, n, inject)
  \cup (IF inject /\ Removable(t, p)
        THEN {Outcome(Err("NotEmpty", n), Without(t, p), FALSE, <<>>, TRUE, FALSE)}
        ELSE {})

\* The native bulk delete: removes the subtree; on an absent path it reports
\* NotExist (memfs) or success (os.RemoveAll).
NativeOutcomes(t, p, n, inject) ==
  (IF KindOf(t, p) = "absent"
   THEN {Outcome(Err("NotExist", n), t, FALSE, <<>>, FALSE, FALSE),
         Outcome(Nil, t, FALSE, <<>>, FALSE, FALSE)}
   ELSE {Outcome(Nil, WithoutSubtree(t, p), FALSE, <<>>, FALSE, FALSE)})
  \cup Injected(t, p, n, inject)

\* ----------------------------------------------- RemoveAll, src/httpfs.go
Res(stk, r, done) == [stack |-> stk, ret |-> r, rets |-> done]

\* line 78: the capability probe decides where a call starts
Entrance(hasNative) == IF hasNative THEN "native" ELSE "stat"

\* mutant: the native result is returned as it is
AfterNative_Raw(err) == err

\* lines 80-83
AfterNative(err) == IF IsNotExist(err) THEN Nil ELSE err

\* mutant: NotExist from Stat is returned like any error
AfterStatErr_Propagate(err) == err

\* mutant: every error of Stat is taken for "nothing to remove"
AfterStatErr_Swallow(err) == Nil

\* lines 87-92
AfterStatErr(err) == IF IsNotExist(err) THEN Nil ELSE err

\* mutant: the IsDir test is lost, every entry is removed as a file
AfterStatOk_NeverOpen(isDir) == "removeFile"

\* mutant: the IsDir test is lost, every entry is opened as a directory
AfterStatOk_AlwaysOpen(isDir) == "open"

\* lines 95-97
AfterStatOk(isDir) == IF ~isDir THEN "removeFile" ELSE "open"

\* mutant: the error of OpenFile is wrapped in a new error
AfterOpenErr_Wrap(err) == IF IsNotExist(err) THEN Nil ELSE Err("Other", 0)

\* mutant: every error of OpenFile is taken for "nothing to remove"
AfterOpenErr_Swallow(err) == Nil

\* mutant: NotExist from OpenFile is returned like any error
AfterOpenErr_Propagate(err) == err

\* lines 101-106
AfterOpenErr(err) == IF IsNotExist(err) THEN Nil ELSE err

\* mutant: the error of Readdir is not looked at
ListFailed_Ignored(err) == FALSE

\* line 110
ListFailed(err) == err # Nil

\* mutant: the loop runs over the listing from its end
LoopOrder_Reversed(infos) == [i \in 1..Len(infos) |-> infos[Len(infos) + 1 - i]]

\* line 114: range takes the entries in the order of the listing
LoopOrder(infos) == infos

\* mutant: only "." is skipped, ".." is walked into
SkipEntry_OnlyDot(name) == name = "."

\* line 117
SkipEntry(name) == name = "." \/ name = ".."

\* mutant: the loop goes on to the next entry after a failed child
ChildFailed_Never(err) == FALSE

\* line 120
ChildFailed(err) == err # Nil

\* mutant: the error of the final Remove is dropped
AfterRemove_Swallow(err, statErr) == Nil

\* mutant: no re-stat, the error of the final Remove is always returned
AfterRemove_NoRestat(err, statErr) == err

\* mutant: the re-stat's error shadows the error of Remove
AfterRemove_StatErr(err, statErr) ==
  IF err # Nil /\ IsNotExist(statErr) THEN Nil
  ELSE IF err # Nil /\ statErr # Nil THEN statErr
  ELSE err

\* lines 128-133
AfterRemove(err, statErr) == IF err # Nil /\ IsNotExist(statErr) THEN Nil ELSE err

\* mutant: the handle is left open while the loop runs
Closed_Deferred(h) == h

\* line 109: f.Close()
Closed(h) == h - 1

RECURSIVE Advance(_)
\* lines 114-125: the loop over the listing, up to the next backing call
\* (lines 267-274 in the second RemoveAll, which skips no entry)
Advance(stk) ==
  LET f == stk[Len(stk)] IN
  IF f.infos = <<>>
  THEN Res(SetTop(stk, [f EXCEPT !.pc = "remove"]), Pending, <<>>)
  ELSE LET name == Head(f.infos)
           rest == SetTop(stk, [f EXCEPT !.infos = Tail(f.infos), !.pc = "wait"])
       IN IF ~legacy /\ SkipEntry(name)
          THEN Advance(rest)
          ELSE Res(Append(rest, Frame(PathJoin(f.path, name), "stat")), Pending, <<>>)

RECURSIVE Return(_, _)
\* a frame returns err: the caller's loop goes on (line 120) or returns it
\* too (line 121); the outermost return ends the call
Return(stk, err) ==
  LET up == SubSeq(stk, 1, Len(stk) - 1)
      me == <<[path |-> stk[Len(stk)].path, err |-> err]>>
  IN IF up = <<>> THEN Res(<<>>, err, me)
     ELSE IF ChildFailed(err)
     THEN LET r == Return(up, err) IN Res(r.stack, r.ret, me \o r.rets)
     ELSE LET r == Advance(up) IN Res(r.stack, r.ret, me)

\* mutant: a failed call puts back what it had removed
TreeAfter_RolledBack(t, t0, r) == IF r.stack = <<>> /\ r.ret # Nil THEN t0 ELSE t

\* lines 91, 105, 111, 121, 133: an error is returned as it comes, nothing
\* is put back; the tree is what the backing call left
TreeAfter(t, t0, r) == t

\* the invocations on the stack that are on the path of the newest one
Revisits(stk) ==
  Cardinality({ i \in 1..Len(stk) : stk[i].path = stk[Len(stk)].path })

Running(pc) == phase = "running" /\ stack # <<>> /\ Top.pc = pc

CanInject == faults < MaxFaults

Count(o) == IF o.fault THEN faults + 1 ELSE faults

\* the bookkeeping every backing call shares
Backing(op, o, r) ==
  /\ log' = Append(log, Entry(op, Top.path, o.err, o.infos))
  /\ fs' = TreeAfter(o.fs, fs0, r)
  /\ faults' = Count(o)
  /\ spurious' = (spurious \/ o.lie)
  /\ stack' = r.stack
  /\ ret' = r.ret
  /\ phase' = IF r.stack = <<>> THEN "returned" ELSE "running"
  /\ rets' = rets \o [i \in 1..Len(r.rets) |->
                       [path |-> r.rets[i].path, err |-> r.rets[i].err, at |-> Len(log) + 1]]
  /\ UNCHANGED <<native, dots, target, fs0, postStat, ncalls, prev, legacy>>
  /\ UNCHANGED mkvars

\* a caller invokes filer.RemoveAll(p); once a call has returned and the
\* caller has looked at the path, it may call again on the same path
Call(p) ==
  /\ phase \in {"idle", "checked"}
  /\ ncalls < MaxCalls
  /\ (phase = "checked" => p = target)
  /\ ncalls' = ncalls + 1
  /\ phase' = "running"
  /\ target' = p
  /\ stack' = <<Frame(p, Entrance(native))>>
  /\ ret' = Pending
  /\ fs0' = fs
  /\ log' = <<>>
  /\ postStat' = Pending
  /\ rets' = <<>>
  /\ spurious' = FALSE
  /\ prev' = [target |-> target, ok |-> (ret = Nil /\ ~spurious)]
  /\ UNCHANGED <<fs, native, dots, handles, faults, legacy>>
  /\ UNCHANGED mkvars

\* lines 78-84
NativeStep ==
  /\ Running("native")
  /\ \E o \in NativeOutcomes(fs, Top.path, Len(log) + 1, CanInject) :
       Backing("RemoveAll", o, Return(stack, AfterNative(o.err)))
  /\ UNCHANGED handles

\* lines 86-97
StatStep ==
  /\ Running("stat")
  /\ Revisits(stack) <= MaxRevisits
  /\ \E o \in StatOutcomes(fs, Top.path, Len(log) + 1, CanInject) :
       Backing("Stat", o,
               IF o.err # Nil
               THEN Return(stack, AfterStatErr(o.err))
               ELSE Res(SetTop(stack, [Top EXCEPT !.pc = AfterStatOk(o.isDir)]), Pending, <<>>))
  /\ UNCHANGED handles

\* line 96
RemoveFileStep ==
  /\ Running("removeFile")
  /\ \E o \in RemoveOutcomes(fs, Top.path, Len(log) + 1, CanInject) :
       Backing("Remove", o, Return(stack, o.err))
  /\ UNCHANGED handles

\* lines 100-106
OpenStep ==
  /\ Running("open")
  /\ \E o \in OpenOutcomes(fs, Top.path, Len(log) + 1, CanInject) :
       /\ Backing("OpenFile", o,
                  IF o.err # Nil
                  THEN Return(stack, AfterOpenErr(o.err))
                  ELSE Res(SetTop(stack, [Top EXCEPT !.pc = "readdir"]), Pending, <<>>))
       /\ handles' = IF o.err = Nil THEN handles + 1 ELSE handles

\* line 108; in the second RemoveAll lines 261-264, where a failed Readdir
\* returns before the Close of line 265
ReaddirStep ==
  /\ Running("readdir")
  /\ \E o \in ReaddirOutcomes(fs, Top.path, Len(log) + 1, dots, CanInject) :
       Backing("Readdir", o,
               IF legacy /\ o.err # Nil
               THEN Return(stack, o.err)
               ELSE Res(SetTop(stack, [Top EXCEPT !.pc = "close", !.infos = o.infos,
                                                  !.err = o.err]),
                        Pending, <<>>))
  /\ UNCHANGED handles

\* lines 109-123
CloseStep ==
  /\ Running("close")
  /\ handles' = Closed(handles)
  /\ Backing("Close", Outcome(Nil, fs, FALSE, <<>>, FALSE, FALSE),
             IF ListFailed(Top.err)
             THEN Return(stack, Top.err)
             ELSE Advance(SetTop(stack, [Top EXCEPT !.err = Nil,
                                                    !.infos = LoopOrder(Top.infos)])))

\* lines 125-128, 133; in the second RemoveAll line 274, which returns
\* what Remove returned
RemoveDirStep ==
  /\ Running("remove")
  /\ \E o \in RemoveOutcomes(fs, Top.path, Len(log) + 1, CanInject) :
       Backing("Remove", o,
               IF legacy THEN Return(stack, o.err)
               ELSE IF o.err # Nil
               THEN Res(SetTop(stack, [Top EXCEPT !.pc = "restat", !.err = o.err]), Pending, <<>>)
               ELSE Return(stack, AfterRemove(o.err, Nil)))
  /\ UNCHANGED handles

\* lines 129-133
RestatStep ==
  /\ Running("restat")
  /\ \E o \in StatOutcomes(fs, Top.path, Len(log) + 1, CanInject) :
       Backing("Stat", o, Return(stack, AfterRemove(Top.err, o.err)))
  /\ UNCHANGED handles

\* the caller stats the path once RemoveAll has returned (httpfs_test.go:303);
\* this Stat is answered truthfully: it observes the tree
PostStat ==
  /\ phase = "returned"
  /\ \E o \in StatOutcomes(fs, target, Len(log) + 1, FALSE) : postStat' = o.err
  /\ phase' = "checked"
  /\ UNCHANGED <<fs, native, dots, target, stack, ret, fs0, log, handles, faults,
                 spurious, ncalls, rets, prev, legacy>>
  /\ UNCHANGED mkvars

Next ==
  \/ \E p \in Paths : Call(p)
  \/ NativeStep
  \/ StatStep
  \/ RemoveFileStep
  \/ OpenStep
  \/ ReaddirStep
  \/ CloseStep
  \/ RemoveDirStep
  \/ RestatStep
  \/ PostStat

Spec == Init /\ [][Next]_vars

\* The second RemoveAll of the file (lines 238-275): no capability probe, no
\* re-stat, no entry of the listing skipped.
InitLegacy ==
  /\ fs \in Trees
  /\ native = FALSE
  /\ dots \in BOOLEAN
  /\ phase = "idle"
  /\ target = <<>>
  /\ stack = <<>>
  /\ ret = Pending
  /\ fs0 = fs
  /\ log = <<>>
  /\ handles = 0
  /\ faults = 0
  /\ spurious = FALSE
  /\ postStat = Pending
  /\ ncalls = 0
  /\ rets = <<>>
  /\ prev = [target |-> <<>>, ok |-> FALSE]
  /\ legacy = TRUE
  /\ mkName = <<>> /\ mkLeft = <<>> /\ mkP = <<>>

NextLegacy ==
  \/ \E p \in Paths : Call(p)
  \/ StatStep
  \/ RemoveFileStep
  \/ OpenStep
  \/ ReaddirStep
  \/ CloseStep
  \/ RemoveDirStep
  \/ PostStat

SpecLegacy == InitLegacy /\ [][NextLegacy]_vars

\* TestRemoveAllDeeplyNested (httpfs_test.go:616-648): ten nested directories
\* with one file in the deepest, on a backing filesystem that injects nothing.
ChainDir(n) == [i \in 1..n |-> "a"]

ChainFile == Append(ChainDir(ChainDepth), "b")

ChainTree ==
  [q \in { ChainDir(n) : n \in 1..ChainDepth } \cup {ChainFile} |->
     IF q = ChainFile THEN "file" ELSE "dir"]

InitDeep ==
  /\ fs = ChainTree
  /\ native \in BOOLEAN
  /\ dots \in BOOLEAN
  /\ (native => ~dots)
  /\ phase = "idle"
  /\ target = <<>>
  /\ stack = <<>>
  /\ ret = Pending
  /\ fs0 = fs
  /\ log = <<>>
  /\ handles = 0
  /\ faults = MaxFaults
  /\ spurious = FALSE
  /\ postStat = Pending
  /\ ncalls = 0
  /\ rets = <<>>
  /\ prev = [target |-> <<>>, ok |-> FALSE]
  /\ legacy = FALSE
  /\ mkName = <<>> /\ mkLeft = <<>> /\ mkP = <<>>

NextDeep ==
  \/ Call(ChainDir(1))
  \/ NativeStep
  \/ StatStep
  \/ RemoveFileStep
  \/ OpenStep
  \/ ReaddirStep
  \/ CloseStep
  \/ RemoveDirStep
  \/ PostStat

SpecDeep == InitDeep /\ [][NextDeep]_vars

TypeOK ==
  /\ fs \in Trees
  /\ phase \in {"idle", "running", "returned", "checked", "mkrunning", "mkdone"}
  /\ (~legacy => handles \in 0..1)
  /\ faults \in 0..MaxFaults
  /\ (phase = "running") = (stack # <<>>)

\* --------------------------------------------- another actor on the tree
\* the children the walk has listed and not yet looked at: those left in
\* the listing of a loop (lines 108-114), and the one whose RemoveAll has
\* been entered and has not issued its Stat (lines 118, 86)
Awaited ==
  UNION { { Append(stack[i].path, stack[i].infos[j]) :
              j \in { j \in DOMAIN stack[i].infos : ~SkipEntry(stack[i].infos[j]) } } :
          i \in { i \in DOMAIN stack : stack[i].pc \in {"close", "wait"} } }
  \cup (IF Len(stack) >= 2 /\ Top.pc = "stat" THEN {Top.path} ELSE {})

\* another actor removes an awaited child, with what is below it, while
\* the walk runs; its removals and the injected errors are counted together
ExternalRemove(c) ==
  /\ phase = "running"
  /\ CanInject
  /\ c \in Awaited
  /\ KindOf(fs, c) # "absent"
  /\ fs' = WithoutSubtree(fs, c)
  /\ log' = Append(log, Entry("ExternalRemove", c, Nil, <<>>))
  /\ faults' = faults + 1
  /\ UNCHANGED <<native, dots, phase, target, stack, ret, fs0, handles,
                 spurious, postStat, ncalls, rets, prev, legacy>>
  /\ UNCHANGED mkvars

\* one call of the manual walk races with the other actor
InitConcurrent ==
  /\ fs \in Trees
  /\ native = FALSE
  /\ dots \in BOOLEAN
  /\ phase = "idle"
  /\ target = <<>>
  /\ stack = <<>>
  /\ ret = Pending
  /\ fs0 = fs
  /\ log = <<>>
  /\ handles = 0
  /\ faults = 0
  /\ spurious = FALSE
  /\ postStat = Pending
  /\ ncalls = MaxCalls - 1
  /\ rets = <<>>
  /\ prev = [target |-> <<>>, ok |-> FALSE]
  /\ legacy = FALSE
  /\ mkName = <<>> /\ mkLeft = <<>> /\ mkP = <<>>

NextConcurrent ==
  \/ \E p \in Paths : Call(p)
  \/ StatStep
  \/ RemoveFileStep
  \/ OpenStep
  \/ ReaddirStep
  \/ CloseStep
  \/ RemoveDirStep
  \/ RestatStep
  \/ PostStat
  \/ \E c \in Paths : ExternalRemove(c)

SpecConcurrent == InitConcurrent /\ [][NextConcurrent]_vars

\* ------------------------------------------------- MkdirAll, src/httpfs.go
\* os.IsExist
IsExist(err) == err.kind = "Exist"

\* strings.Split(name, "/") of the arguments tried: components that are a
\* name or empty, the names making a path of the tree
MkInputs ==
  { s \in UNION { [1..n -> Names \cup {""}] : n \in 1..(MaxDepth + 1) } :
      SelectSeq(s, LAMBDA c : c # "") \in Paths \cup {<<>>} }

With(t, p, kind) == [q \in DOMAIN t |-> IF q = p THEN kind ELSE t[q]]

\* Mkdir: an existing entry is reported as such, a missing parent as NotExist,
\* a parent that is a file as NotDir; else the directory is made. Injected:
\* an error without effect.
MkdirOutcomes(t, p, n, inject) ==
  (IF KindOf(t, p) # "absent"
   THEN {Outcome(Err("Exist", n), t, FALSE, <<>>, FALSE, FALSE)}
   ELSE IF KindOf(t, Parent(p)) = "absent"
   THEN {Outcome(Err("NotExist", n), t, FALSE, <<>>, FALSE, FALSE)}
   ELSE IF KindOf(t, Parent(p)) = "file"
   THEN {Outcome(Err("NotDir", n), t, FALSE, <<>>, FALSE, FALSE)}
   ELSE {Outcome(Nil, With(t, p, "dir"), TRUE, <<>>, FALSE, FALSE)})
  \cup (IF inject THEN {Outcome(Err("Other", n), t, FALSE, <<>>, TRUE, FALSE)} ELSE {})

RECURSIVE SkipEmpty(_)
\* lines 49-51
SkipEmpty(names) ==
  IF names = <<>> THEN <<>>
  ELSE IF Head(names) = "" THEN SkipEmpty(Tail(names))
  ELSE names

\* mutant: an existing directory is an error like any other
MkdirFailed_Any(err) == err # Nil

\* line 54
MkdirFailed(err) == err # Nil /\ ~IsExist(err)

\* lines 45-51, 58: the call, up to its first Mkdir; once a call has
\* returned the caller may repeat it
MkdirAllCall(name) ==
  /\ phase \in {"idle", "mkdone"}
  /\ ncalls < MaxCalls
  /\ (phase = "mkdone" => name = mkName)
  /\ ncalls' = ncalls + 1
  /\ mkName' = name
  /\ mkLeft' = SkipEmpty(name)
  /\ mkP' = <<>>
  /\ phase' = IF SkipEmpty(name) = <<>> THEN "mkdone" ELSE "mkrunning"
  /\ ret' = IF SkipEmpty(name) = <<>> THEN Nil ELSE Pending
  /\ fs0' = fs
  /\ log' = <<>>
  /\ UNCHANGED <<fs, native, dots, target, stack, handles, faults, spurious,
                 postStat, rets, prev, legacy>>

\* lines 52-58: one turn of the loop
MkdirStep ==
  /\ phase = "mkrunning"
  /\ LET p == PathJoin(mkP, Head(mkLeft))
         rest == SkipEmpty(Tail(mkLeft))
     IN \E o \in MkdirOutcomes(fs, p, Len(log) + 1, CanInject) :
          /\ log' = Append(log, Entry("Mkdir", p, o.err, <<>>))
          /\ fs' = o.fs
          /\ faults' = Count(o)
          /\ mkP' = p
          /\ IF MkdirFailed(o.err)
             THEN ret' = o.err /\ phase' = "mkdone" /\ mkLeft' = <<>>
             ELSE /\ mkLeft' = rest
                  /\ ret' = IF rest = <<>> THEN Nil ELSE Pending
                  /\ phase' = IF rest = <<>> THEN "mkdone" ELSE "mkrunning"
  /\ UNCHANGED <<native, dots, target, stack, fs0, handles, spurious, postStat,
                 ncalls, rets, prev, legacy, mkName>>

InitMkdir ==
  /\ fs \in Trees
  /\ native = FALSE
  /\ dots = FALSE
  /\ phase = "idle"
  /\ target = <<>>
  /\ stack = <<>>
  /\ ret = Pending
  /\ fs0 = fs
  /\ log = <<>>
  /\ handles = 0
  /\ faults = 0
  /\ spurious = FALSE
  /\ postStat = Pending
  /\ ncalls = 0
  /\ rets = <<>>
  /\ prev = [target |-> <<>>, ok |-> FALSE]
  /\ legacy = FALSE
  /\ mkName = <<>> /\ mkLeft = <<>> /\ mkP = <<>>

NextMkdir ==
  \/ \E name \in MkInputs : MkdirAllCall(name)
  \/ MkdirStep

SpecMkdir == InitMkdir /\ [][NextMkdir]_vars

\* ------------------------------------------------------------ vocabulary
Done == phase \in {"returned", "checked"}

Manual == ~native

Calls == DOMAIN log

Under(d, p) == IsPrefix(d, p)

\* the frame of path p returned value e right after backing call number k
Returned(p, k, e) == \E i \in DOMAIN rets : rets[i] = [path |-> p, err |-> e, at |-> k]

\* call k is the final Remove of a directory: it failed and the re-stat follows
FailedFinalRemove(k) ==
  /\ k \in Calls /\ k + 1 \in Calls
  /\ log[k].op = "Remove" /\ log[k].err # Nil
  /\ log[k + 1].op = "Stat" /\ log[k + 1].path = log[k].path

\* call k is the re-stat of lines 129-131
IsRestat(k) == k > 1 /\ FailedFinalRemove(k - 1)

\* call k is the Stat that opens a RemoveAll (line 86)
IsFirstStat(k) == k \in Calls /\ log[k].op = "Stat" /\ ~IsRestat(k)

\* the listing the walk obtained for directory d
ListingOf(d) ==
  LET ks == { k \in Calls : log[k].op = "Readdir" /\ log[k].path = d /\ log[k].err = Nil }
  IN IF ks = {} THEN <<>> ELSE log[CHOOSE k \in ks : TRUE].infos

SameSubtree(t, u, d) == \A q \in Paths : Under(d, q) => t[q] = u[q]

\* -------------------------------------------------------------------- C1
\* C1 as stated: whenever RemoveAll(p) has returned success, the Stat(p)
\* issued right afterwards reports NotExist, whatever the backing filesystem.
C1_Completeness ==
  (phase = "checked" /\ ret = Nil) => IsNotExist(postStat)

\* C1 amended: when no backing call of the RemoveAll(p) reported NotExist
\* for an entry that exists, whenever RemoveAll(p) has returned success p is
\* absent and the Stat(p) issued right afterwards reports NotExist.
C1_CompletenessTruthful ==
  (Done /\ ret = Nil /\ ~spurious) =>
     /\ KindOf(fs, target) = "absent"
     /\ (phase = "checked" => IsNotExist(postStat))

C1_Witness ==
  /\ phase = "checked" /\ ret = Nil /\ ~spurious /\ Manual
  /\ fs0[target] = "dir" /\ Children(fs0, target) # {}
  /\ IsNotExist(postStat)

\* -------------------------------------------------------------------- C2
\* C2: RemoveAll on a path that does not exist makes one backing call (the
\* native RemoveAll or Stat), leaves the tree as it was and, unless that call
\* fails with an error other than NotExist, returns success; so does a second
\* RemoveAll(p) after one that succeeded.
C2_Idempotence ==
  /\ (Done /\ KindOf(fs0, target) = "absent") =>
        /\ fs = fs0
        /\ Len(log) = 1
        /\ log[1].op = (IF native THEN "RemoveAll" ELSE "Stat")
        /\ (log[1].err.kind # "Other" => ret = Nil)
  /\ (Done /\ prev.ok /\ prev.target = target
        /\ \A k \in Calls : log[k].err.kind # "Other") =>
        (ret = Nil /\ fs = fs0)

C2_Witness ==
  /\ Done /\ Manual /\ ncalls = 2 /\ prev.ok /\ prev.target = target
  /\ ret = Nil /\ fs = fs0 /\ IsNotExist(log[1].err)

\* -------------------------------------------------------------------- C3
\* a child frame (below the target) returned an error that is not NotExist
ChildFailure(i) ==
  /\ Len(rets[i].path) > Len(target)
  /\ rets[i].err # Nil
  /\ ~IsNotExist(rets[i].err)

\* the entries the listing of d names after child name c
ListedAfter(d, c) ==
  LET l == ListingOf(d)
  IN { l[j] : j \in { j \in DOMAIN l : \E i \in DOMAIN l : i < j /\ l[i] = c } }

\* C3: in the manual walk, when the recursive removal of a child returns an
\* error that is not NotExist, the directory returns that very error, no
\* backing call is made on a sibling listed after the child (it and its
\* subtree are as they were), and the directory is not removed.
C3_FailFast ==
  Manual =>
    \A i \in DOMAIN rets :
      ChildFailure(i) =>
        LET c == rets[i].path
            d == Parent(c)
        IN /\ i < Len(rets)
           /\ rets[i + 1] = [path |-> d, err |-> rets[i].err, at |-> rets[i].at]
           /\ \A n \in ListedAfter(d, c[Len(c)]) \ {".", ".."} :
                /\ \A k \in Calls : ~Under(Append(d, n), log[k].path)
                /\ SameSubtree(fs, fs0, Append(d, n))
           /\ KindOf(fs, d) = "dir"
           /\ \A k \in Calls : ~(log[k].op = "Remove" /\ log[k].path = d)

C3_Witness ==
  /\ Manual /\ Done
  /\ \E i \in DOMAIN rets :
       /\ ChildFailure(i)
       /\ ListedAfter(Parent(rets[i].path), rets[i].path[Len(rets[i].path)]) \ {".", ".."} # {}
       /\ ret = rets[i].err

\* -------------------------------------------------------------------- C4
\* C4: in the manual walk, when the final Remove of a directory returns an
\* error and the re-stat that follows reports NotExist, RemoveAll on that
\* directory returns success.
C4_Tolerance ==
  Manual =>
    \A k \in Calls :
      (FailedFinalRemove(k) /\ IsNotExist(log[k + 1].err)) =>
         Returned(log[k].path, k + 1, Nil)

C4_Witness ==
  /\ Manual /\ Done /\ ret = Nil /\ ~spurious
  /\ \E k \in Calls : FailedFinalRemove(k) /\ IsNotExist(log[k + 1].err)

\* -------------------------------------------------------------------- C5
\* C5: in the manual walk, when the final Remove of a directory fails and the
\* re-stat does not report NotExist (it succeeds, or fails otherwise),
\* RemoveAll on that directory returns the error of Remove itself.
C5_RemoveErrorPropagates ==
  Manual =>
    \A k \in Calls :
      (FailedFinalRemove(k) /\ ~IsNotExist(log[k + 1].err)) =>
         /\ Returned(log[k].path, k + 1, log[k].err)
         /\ ret = log[k].err

C5_Witness ==
  /\ Manual /\ Done
  /\ \E k \in Calls :
       /\ FailedFinalRemove(k)
       /\ log[k + 1].err.kind = "Other"
       /\ ret = log[k].err

\* -------------------------------------------------------------------- C6
\* C6: with the native capability RemoveAll(p) makes one backing call, the
\* native RemoveAll(p), and no Stat, OpenFile, Readdir or Remove; it returns
\* success when that call reports success or NotExist and the call's error
\* unchanged otherwise.
C6_NativeDelegation ==
  native =>
    /\ \A k \in Calls : k = 1 /\ log[k].op = "RemoveAll" /\ log[k].path = target
    /\ Done =>
         /\ Len(log) = 1
         /\ ret = (IF log[1].err = Nil \/ IsNotExist(log[1].err) THEN Nil ELSE log[1].err)

C6_Witness ==
  /\ native /\ Done /\ ret = Nil
  /\ IsNotExist(log[1].err) /\ log[1].op = "RemoveAll"

C6_WitnessError ==
  native /\ Done /\ ret.kind = "Other" /\ ret = log[1].err

\* -------------------------------------------------------------------- C7
\* C7: in the manual walk, a RemoveAll whose Stat reports an existing entry
\* that is no directory makes one more backing call, Remove on that path,
\* and returns what Remove returned, NotExist included; no OpenFile, no
\* Readdir, no recursion. For the top-level call the result and the tree it
\* leaves are a result and a tree of Remove(p) in the tree it started from.
C7_FileCase ==
  Manual =>
    /\ \A k \in Calls :
         (IsFirstStat(k) /\ log[k].err = Nil /\ KindOf(fs0, log[k].path) = "file") =>
            /\ Done => k < Len(log)
            /\ k < Len(log) =>
                 /\ log[k + 1].op = "Remove"
                 /\ log[k + 1].path = log[k].path
                 /\ Returned(log[k].path, k + 1, log[k + 1].err)
    /\ (Done /\ KindOf(fs0, target) = "file" /\ log[1].err = Nil) =>
         /\ Len(log) = 2
         /\ \E o \in RemoveOutcomes(fs0, target, 2, TRUE) : ret = o.err /\ fs = o.fs

C7_Witness ==
  /\ Manual /\ Done /\ KindOf(fs0, target) = "file"
  /\ log[1].err = Nil /\ ret = Nil /\ KindOf(fs, target) = "absent"

C7_WitnessNotExist ==
  /\ Manual /\ Done /\ KindOf(fs0, target) = "file"
  /\ log[1].err = Nil /\ IsNotExist(ret) /\ ret = log[2].err

\* -------------------------------------------------------------------- C8
\* place 1: NotExist from the Stat that opens a RemoveAll (lines 88-90)
ConvertedFirstStat(k) == IsFirstStat(k) /\ IsNotExist(log[k].err)

\* place 2: the failed final Remove and the re-stat reporting NotExist
\* (lines 128-131)
ConvertedFinalRemove(k) ==
  \/ FailedFinalRemove(k) /\ IsNotExist(log[k + 1].err)
  \/ IsRestat(k) /\ IsNotExist(log[k].err)

\* NotExist from OpenFile (lines 102-104)
ConvertedOpen(k) == log[k].op = "OpenFile" /\ IsNotExist(log[k].err)

\* the re-stat's own error of another kind, dropped for Remove's (line 133)
DroppedRestat(k) == IsRestat(k) /\ ~IsNotExist(log[k].err)

\* C8 as stated: in the manual walk an error of a backing call is turned
\* into success in two places only, the first Stat reporting NotExist and
\* the failed final Remove with a re-stat reporting NotExist; every other
\* error of a backing call is what RemoveAll returns.
C8_TwoConversions ==
  (Manual /\ Done) =>
    \A k \in Calls :
      log[k].err # Nil =>
        \/ ConvertedFirstStat(k)
        \/ ConvertedFinalRemove(k)
        \/ ret = log[k].err

\* C8 amended: there is a third place, NotExist from OpenFile, and the
\* re-stat's error of another kind is dropped in favour of Remove's; every
\* other error of a backing call is what RemoveAll returns, and a success is
\* returned only when every error met was one of the converted ones.
C8_ThreeConversions ==
  (Manual /\ Done) =>
    \A k \in Calls :
      log[k].err # Nil =>
        \/ ConvertedFirstStat(k)
        \/ ConvertedFinalRemove(k)
        \/ ConvertedOpen(k)
        \/ DroppedRestat(k)
        \/ ret = log[k].err

C8_Witness ==
  /\ Manual /\ Done /\ ret = Nil
  /\ \E k \in Calls : ConvertedOpen(k)
  /\ KindOf(fs, target) = "dir"

\* -------------------------------------------------------------------- C9
\* C9: in the manual walk, when the Stat that opens RemoveAll(p) fails with
\* an error other than NotExist, that RemoveAll returns the error at once;
\* for the top-level call no other backing call is made and the tree is as
\* it was.
C9_StatErrorPropagates ==
  Manual =>
    /\ \A k \in Calls :
         (IsFirstStat(k) /\ log[k].err # Nil /\ ~IsNotExist(log[k].err)) =>
            /\ Returned(log[k].path, k, log[k].err)
            /\ Len(log) = k
            /\ ret = log[k].err
    /\ (Len(log) >= 1 /\ log[1].err # Nil /\ ~IsNotExist(log[1].err)) =>
         (Done /\ Len(log) = 1 /\ fs = fs0 /\ ret = log[1].err)

C9_Witness ==
  /\ Manual /\ Done /\ Len(log) = 1 /\ log[1].err.kind = "Other"
  /\ ret = log[1].err /\ KindOf(fs0, target) = "dir" /\ fs = fs0

\* ------------------------------------------------------------------- C10
\* call k is OpenFile failing other than NotExist, or Readdir failing
ReadPhaseFailure(k) ==
  \/ log[k].op = "OpenFile" /\ log[k].err # Nil /\ ~IsNotExist(log[k].err)
  \/ log[k].op = "Readdir" /\ log[k].err # Nil

\* C10: in the manual walk, when OpenFile on a directory fails with an error
\* other than NotExist, or Readdir fails with any error, RemoveAll on that
\* directory returns that very error; no call is made on a child and Remove
\* is not called on the directory.
C10_OpenListErrorPropagates ==
  Manual =>
    \A k \in Calls :
      ReadPhaseFailure(k) =>
        /\ \A j \in Calls :
             j > k => (j = k + 1 /\ log[k].op = "Readdir" /\ log[j].op = "Close")
        /\ Done =>
             /\ Returned(log[k].path, Len(log), log[k].err)
             /\ ret = log[k].err
             /\ KindOf(fs, log[k].path) = "dir"
             /\ SameSubtree(fs, fs0, log[k].path)

C10_Witness ==
  /\ Manual /\ Done
  /\ \E k \in Calls :
       /\ log[k].op = "Readdir" /\ IsNotExist(log[k].err)
       /\ ret = log[k].err
       /\ Children(fs, log[k].path) # {}

C10_WitnessOpen ==
  /\ Manual /\ Done
  /\ \E k \in Calls :
       /\ log[k].op = "OpenFile" /\ log[k].err.kind = "Other"
       /\ ret = log[k].err
       /\ Len(log[k].path) > Len(target)

\* ------------------------------------------------------------------- C11
\* C11 as stated: whenever the manual walk returns an error that came from
\* OpenFile or Readdir anywhere below p, the tree is as it was when
\* RemoveAll(p) was called.
C11_ReadPhaseNoMutation ==
  (Manual /\ Done) =>
    \A k \in Calls :
      (ReadPhaseFailure(k) /\ ret = log[k].err) => fs = fs0

\* C11 amended: the directory whose OpenFile or Readdir failed and all below
\* it are as they were when RemoveAll(p) was called (so is the whole tree
\* when that directory is p); what differs are entries of p's subtree outside
\* that directory, removed before the failure and still absent.
C11_ReadPhaseFrame ==
  (Manual /\ Done) =>
    \A k \in Calls :
      ReadPhaseFailure(k) =>
        /\ ret = log[k].err
        /\ SameSubtree(fs, fs0, log[k].path)
        /\ (log[k].path = target => fs = fs0)
        /\ \A q \in Paths :
             fs[q] # fs0[q] =>
               (fs[q] = "absent" /\ Under(target, q) /\ ~Under(log[k].path, q))

C11_Witness ==
  /\ Manual /\ Done /\ fs # fs0
  /\ \E k \in Calls :
       /\ log[k].op = "Readdir" /\ log[k].err.kind = "Other"
       /\ ret = log[k].err
       /\ KindOf(fs, log[k].path) = "dir"
       /\ \E q \in Paths : KindOf(fs0, q) = "file" /\ KindOf(fs, q) = "absent"

\* ------------------------------------------------------------------- C12
\* C12: in the manual walk, when Stat reports a directory and OpenFile on it
\* then fails with NotExist, RemoveAll on it returns success at once: no
\* Readdir, no call on anything below it, no Remove on it.
C12_OpenNotExist ==
  Manual =>
    \A k \in Calls :
      (log[k].op = "OpenFile" /\ IsNotExist(log[k].err)) =>
        /\ Returned(log[k].path, k, Nil)
        /\ \A j \in Calls : j > k => ~Under(log[k].path, log[j].path)

C12_Witness ==
  /\ Manual /\ Done /\ ret = Nil
  /\ \E k \in Calls :
       /\ log[k].op = "OpenFile" /\ IsNotExist(log[k].err)
       /\ log[k].path = target
       /\ k = Len(log)
       /\ Children(fs, target) # {}

\* ------------------------------------------------------------------- C18
\* call k is the Remove of a directory the walk has listed
FinalRemove(k) ==
  /\ log[k].op = "Remove"
  /\ \E j \in Calls : j < k /\ log[j].op = "Readdir" /\ log[j].path = log[k].path
                       /\ log[j].err = Nil

\* the frame of path p returned success before backing call number k
ReturnedNilBefore(p, k) ==
  \E i \in DOMAIN rets : rets[i].path = p /\ rets[i].err = Nil /\ rets[i].at < k

\* C18: in the manual walk, Remove on a directory is issued only after the
\* recursive RemoveAll of every listed child, "." and ".." aside, has
\* returned success.
C18_PostOrder ==
  Manual =>
    \A k \in Calls :
      FinalRemove(k) =>
        \A n \in { ListingOf(log[k].path)[i] : i \in DOMAIN ListingOf(log[k].path) }
                 \ {".", ".."} :
          ReturnedNilBefore(Append(log[k].path, n), k)

C18_Witness ==
  /\ Manual /\ Done /\ ret = Nil /\ dots
  /\ \E k \in Calls :
       /\ FinalRemove(k) /\ log[k].path = target
       /\ Len(ListingOf(target)) = 4

\* ------------------------------------------------------------------- C20
\* C20: in the manual walk, every backing call of RemoveAll(p) is on p or on
\* a path below p, also when listings hold "." and ".."; every entry outside
\* the subtree of p is as it was.
C20_Confinement ==
  Manual =>
    /\ \A k \in Calls : Under(target, log[k].path)
    /\ \A q \in Paths : ~Under(target, q) => fs[q] = fs0[q]

C20_Witness ==
  /\ Manual /\ Done /\ dots /\ ret = Nil
  /\ Len(target) = 2 /\ KindOf(fs0, target) = "dir"
  /\ Children(fs0, Parent(target)) = Names
  /\ \E k \in Calls : log[k].op = "Readdir" /\ log[k].err = Nil

\* ------------------------------------------------------------------- C14
BackingOps == {"Stat", "OpenFile", "Readdir", "Close", "Remove", "RemoveAll"}

\* C14: in every step of a RemoveAll, successful or failing, an entry of the
\* tree either stays as it is or goes: nothing appears, nothing changes kind,
\* nothing removed comes back; and the only backing calls made are Stat,
\* OpenFile, Readdir, Close, Remove and the native RemoveAll.
C14_OnlyShrinks ==
  [][ /\ \A q \in DOMAIN fs : fs'[q] # fs[q] => fs'[q] = "absent"
      /\ \A k \in DOMAIN log' : log'[k].op \in BackingOps ]_vars

C14_Witness ==
  /\ Manual /\ Done /\ ret.kind = "Other"
  /\ \E q \in Paths : KindOf(fs0, q) # "absent" /\ KindOf(fs, q) = "absent"

\* ------------------------------------------------------------------- C19
\* the number of the first backing call on path p after call k, 0 if none
FirstCallAfter(p, k) ==
  LET ms == { m \in Calls : m > k /\ log[m].path = p }
  IN IF ms = {} THEN 0 ELSE CHOOSE m \in ms : \A x \in ms : m <= x

\* C19: in the manual walk, the children of a directory are walked in the
\* order of its listing, one at a time: when the walk makes its first call
\* on a listed child, the RemoveAll of every child listed before it has
\* returned success.
C19_ListingOrder ==
  Manual =>
    \A k \in Calls :
      (log[k].op = "Readdir" /\ log[k].err = Nil) =>
        LET d == log[k].path
            l == log[k].infos
        IN \A i, j \in DOMAIN l :
             (i < j /\ l[i] \notin {".", ".."} /\ l[j] \notin {".", ".."}
                /\ FirstCallAfter(Append(d, l[j]), k) # 0) =>
                ReturnedNilBefore(Append(d, l[i]), FirstCallAfter(Append(d, l[j]), k))

C19_Witness ==
  /\ Manual /\ Done /\ ret = Nil
  /\ \E k \in Calls :
       /\ log[k].op = "Readdir" /\ log[k].infos = <<"b", "a">>
       /\ FirstCallAfter(Append(log[k].path, "a"), k) # 0

\* ------------------------------------------------------------------- C13
\* the frame of directory p opened a handle with backing call k
Opened(p, k) == k \in Calls /\ log[k].op = "OpenFile" /\ log[k].path = p /\ log[k].err = Nil

\* C13: every directory handle the manual walk opens is closed before the
\* RemoveAll that opened it returns, after a successful Readdir and after a
\* failed one; once a top-level RemoveAll has returned no handle is open.
C13_HandleRelease ==
  /\ \A i \in DOMAIN rets : \A k \in Calls :
       (Opened(rets[i].path, k) /\ k < rets[i].at) =>
          \E j \in Calls : /\ k < j /\ j <= rets[i].at
                           /\ log[j].op = "Close" /\ log[j].path = rets[i].path
  /\ Done => handles = 0

C13_Witness ==
  /\ Manual /\ ~legacy /\ Done /\ handles = 0
  /\ \E k \in Calls : log[k].op = "Readdir" /\ log[k].err # Nil /\ ret = log[k].err

\* ------------------------------------------------------------------- C15
\* C15: on a backing filesystem that injects nothing, RemoveAll on the top
\* of ten nested directories with a file in the deepest returns success,
\* and none of the ten directories nor the file exists afterwards.
C15_DeepNesting ==
  Done =>
    /\ ret = Nil
    /\ \A q \in DOMAIN fs : fs[q] = "absent"
    /\ (phase = "checked" => IsNotExist(postStat))

C15_Witness ==
  /\ phase = "checked" /\ Manual /\ ret = Nil /\ IsNotExist(postStat)
  /\ fs0 = ChainTree
  /\ \A q \in DOMAIN fs : fs[q] = "absent"
  /\ Cardinality({ k \in Calls : log[k].op = "Remove" }) = ChainDepth + 1

\* ------------------------------------------------------------------- C16
MkDone == phase = "mkdone"

\* the path MkdirAll was asked for, and its ancestors
MkPrefixes ==
  LET full == SelectSeq(mkName, LAMBDA c : c # "")
  IN { SubSeq(full, 1, n) : n \in 1..Len(full) }

\* C16: whenever MkdirAll(path) has returned success, every prefix of the
\* path, the path itself included, exists and is a directory.
C16_MkdirAllPost ==
  (MkDone /\ ret = Nil) => \A q \in MkPrefixes : KindOf(fs, q) = "dir"

\* ------------------------------------------------------------------- C17
\* C17: MkdirAll on a path whose components all exist as directories leaves
\* the tree as it was and, with no injected error, returns success; an Exist
\* error of Mkdir is never what MkdirAll returns; any other error of Mkdir
\* is the last call of the loop and is returned as it is.
C17_MkdirAllIdempotent ==
  /\ (MkDone /\ \A q \in MkPrefixes : KindOf(fs0, q) = "dir") =>
        /\ fs = fs0
        /\ ((\A k \in Calls : log[k].err.kind # "Other") => ret = Nil)
  /\ ~IsExist(ret)
  /\ \A k \in Calls :
       (log[k].op = "Mkdir" /\ log[k].err # Nil /\ ~IsExist(log[k].err)) =>
          (k = Len(log) /\ MkDone /\ ret = log[k].err)

C17_Witness ==
  /\ MkDone /\ ncalls = 2 /\ ret = Nil /\ fs = fs0
  /\ Len(log) = 2 /\ \A k \in Calls : IsExist(log[k].err)
  /\ Cardinality(MkPrefixes) = 2

\* ------------------------------------------------------------------- C21
\* the entries below d in tree t
Descendants(t, d) ==
  { q \in Paths : IsPrefix(d, q) /\ q # d /\ KindOf(t, q) # "absent" }

\* the RemoveAll invocations of the current call, the outermost included:
\* each starts with its Stat, the newest may not have issued it yet
Invocations ==
  Cardinality({ k \in Calls : IsFirstStat(k) })
    + (IF phase = "running" /\ stack # <<>> /\ Top.pc = "stat" THEN 1 ELSE 0)

\* C21 (what it says of the recursion): in a manual walk, the listings
\* holding "." and ".." or not, the recursive calls are no more than the
\* entries the target's subtree held, and each is made on an entry strictly
\* below the directory whose loop made it, never on the directory itself or
\* its parent.
C21_BoundedRecursion ==
  (Manual /\ phase \in {"running", "returned", "checked"}) =>
     /\ Invocations <= 1 + Cardinality(Descendants(fs0, target))
     /\ \A i \in 2..Len(stack) :
          /\ IsPrefix(stack[i - 1].path, stack[i].path)
          /\ stack[i].path # stack[i - 1].path

\* the walk of lines 76-134 over listings with "." and ".." that made a
\* recursive call and returned
C21_Witness ==
  /\ Manual /\ ~legacy /\ dots /\ Done
  /\ Invocations >= 2

\* the steps of a RemoveAll that is running: the goroutine is scheduled and
\* every backing call answers
WalkStep ==
  \/ NativeStep
  \/ StatStep
  \/ RemoveFileStep
  \/ OpenStep
  \/ ReaddirStep
  \/ CloseStep
  \/ RemoveDirStep
  \/ RestatStep

SpecLive == Init /\ [][Next]_vars /\ WF_vars(WalkStep)

\* C21 (termination): a RemoveAll of lines 76-134 that was called returns.
C21_Termination == (phase = "running") ~> (phase = "returned")

\* ------------------------------------------------------------------- C22
\* C22: at every point of a manual walk at most one directory handle is
\* open; it belongs to the newest invocation, which has opened its directory
\* and not yet closed it, and every invocation that has recursed into a
\* child has closed its own: the open handles do not grow with the depth.
C22_OneHandle ==
  (Manual /\ ~legacy) =>
     /\ handles <= 1
     /\ (handles = 1) = (phase = "running" /\ Top.pc \in {"readdir", "close"})
     /\ \A i \in 1..(Len(stack) - 1) : stack[i].pc = "wait"

\* a directory two levels down is open while its parent's loop waits
C22_Witness ==
  /\ Manual /\ ~legacy /\ handles = 1
  /\ Len(stack) = 2 /\ Top.pc = "close"

\* ------------------------------------------------------------------- C23
\* call k of the log is the other actor's removal
External(k) == k \in Calls /\ log[k].op = "ExternalRemove"

Externals == { k \in Calls : External(k) }

\* C23: when another actor has removed a listed child c before the walk
\* stats it, the walk issues nothing on c but that Stat; on its NotExist the
\* invocation on c returns nil and the parent's loop goes on, to the Stat
\* of the next sibling or to the Remove of the parent; and with no fault of
\* the backing filesystem (all that was counted are the other actor's
\* removals) the call returns nil with the target gone.
C23_ConcurrentDeleter ==
  /\ \A k \in Calls : External(k) =>
       \A j \in Calls :
         (j > k /\ ~External(j) /\ Under(log[k].path, log[j].path)) =>
            /\ log[j].op = "Stat" /\ log[j].path = log[k].path
            /\ IsNotExist(log[j].err) => Returned(log[k].path, j, Nil)
            /\ (IsNotExist(log[j].err) /\ j = Len(log)) =>
                 /\ phase = "running"
                 /\ \/ Top.pc = "remove" /\ Top.path = Parent(log[k].path)
                    \/ /\ Top.pc = "stat" /\ Top.path # log[k].path
                       /\ Parent(Top.path) = Parent(log[k].path)
  /\ (Done /\ Externals # {} /\ faults = Cardinality(Externals)) =>
        (ret = Nil /\ KindOf(fs, target) = "absent")

\* a directory child was removed by the other actor after the listing; the
\* walk found it gone, went on to its sibling and returned nil
C23_Witness ==
  /\ phase = "checked" /\ ret = Nil /\ IsNotExist(postStat)
  /\ \E k \in Calls :
       /\ External(k) /\ KindOf(fs0, log[k].path) = "dir"
       /\ \E j, i \in Calls :
            /\ k < j /\ j < i
            /\ log[j].op = "Stat" /\ log[j].path = log[k].path /\ IsNotExist(log[j].err)
            /\ log[i].op = "Stat" /\ log[i].path # log[k].path
            /\ Parent(log[i].path) = Parent(log[k].path)
====
